---- MODULE Spec2Model ----
(***************************************************************************)
(* CsgNode<DIM> of fcpw (src/core/csg_node.inl): the boolean combinator    *)
(* over two child aggregates.  The node's state is its operation, its two  *)
(* children and the bounding box cached at construction.  A child is a     *)
(* stub holding what it answers to the caller's ray and query point: its   *)
(* bounding box, its sorted list of ray crossings and its closest point.   *)
(* Distances are integers; vectors (normals) are integers in one           *)
(* dimension, box corners are points of a DIM = 2 grid.                    *)
(***************************************************************************)
EXTENDS Integers, Sequences, FiniteSets, Bags, TLC

VARIABLES
    operation,   \* CsgNode::operation
    left,        \* CsgNode::left  (child stub)
    right,       \* CsgNode::right (child stub)
    box,         \* CsgNode::box, cached at construction
    r,           \* the caller's Ray: [tMax]
    countHits,   \* intersect's countHits argument
    boxHit,      \* what box.intersect(r, tMin, tMax) answers for this ray
    is,          \* the caller's interaction list
    hits,        \* value returned by the last intersect
    s,           \* the caller's BoundingSphere: [r2]
    boxOverlaps, \* what box.overlaps(s, d2Min, d2Max) answers for this sphere
    i,           \* the caller's output Interaction
    found,       \* value returned by the last findClosestPoint
    pc,          \* "idle", or the last call made: "intersect", "findClosestPoint", "crashed"
    rIn,         \* the ray on entry to the last intersect
    sIn,         \* the sphere on entry to the last findClosestPoint
    iIn,         \* the output interaction on entry to the last findClosestPoint
    sLeft,       \* the sphere copy handed to the left child, after its query
    sRight,      \* the sphere copy handed to the right child, after its query
    consumed,    \* order in which computeInteractions consumed the crossings
    oob          \* the last intersect read is[0] of an empty list

vars == <<operation, left, right, box, r, countHits, boxHit, is, hits, s,
          boxOverlaps, i, found, pc, rIn, sIn, iIn, sLeft, sRight, consumed, oob>>

----------------------------------------------------------------------------
(* Bounds of the model *)

MaxHits == 4     \* most crossings the two children report together
MaxD == 5        \* largest ray distance
MaxDist == 2     \* largest closest-point distance
MaxCoord == 1    \* largest box coordinate

----------------------------------------------------------------------------
(* BooleanOperation *)

Union == "Union"
Intersection == "Intersection"
Difference == "Difference"
None == "None"
BooleanOperation == {Union, Intersection, Difference, None}

Exact == "Exact"
Bounded == "Bounded"

Min(a, b) == IF a < b THEN a ELSE b
Max(a, b) == IF a > b THEN a ELSE b

----------------------------------------------------------------------------
(* Interaction<DIM>: distance d, normal n, sign, distanceInfo *)

Interaction(d, n, sign, info) == [d |-> d, n |-> n, sign |-> sign, distanceInfo |-> info]

\* a default-constructed Interaction
NoInteraction == Interaction(MaxD + MaxDist + 1, 0, 0, Exact)

\* Interaction::signedDistance
signedDistance(x) == x.sign * x.d

\* compareInteractions: orders interactions by distance
compareInteractions(a, b) == a.d < b.d

----------------------------------------------------------------------------
(* BoundingBox<DIM>, DIM = 2 *)

Dims == {1, 2}
Inf == MaxCoord + 1

\* BoundingBox(isTight): the empty box
EmptyBox(isTight) == [pMin |-> <<Inf, Inf>>, pMax |-> <<-Inf, -Inf>>, isTight |-> isTight]

\* BoundingBox::expandToInclude(b)
expandToInclude(b, o) ==
    [pMin |-> [k \in Dims |-> Min(b.pMin[k], o.pMin[k])],
     pMax |-> [k \in Dims |-> Max(b.pMax[k], o.pMax[k])],
     isTight |-> b.isTight]

\* BoundingBox::extent().squaredNorm()
extentSquaredNorm(b) ==
    (b.pMax[1] - b.pMin[1]) * (b.pMax[1] - b.pMin[1]) +
    (b.pMax[2] - b.pMin[2]) * (b.pMax[2] - b.pMin[2])

\* computeBoundingBox with the extents compared by <=: the left box on equal extents
computeBoundingBox_LeftOnTies(op, leftBox, rightBox) ==
    IF op = Intersection
    THEN expandToInclude(EmptyBox(FALSE),
                         IF extentSquaredNorm(leftBox) <= extentSquaredNorm(rightBox)
                         THEN leftBox ELSE rightBox)
    ELSE IF op = Difference
    THEN expandToInclude(EmptyBox(FALSE), leftBox)
    ELSE [expandToInclude(expandToInclude(EmptyBox(FALSE), leftBox), rightBox)
             EXCEPT !.isTight = leftBox.isTight /\ rightBox.isTight]

\* CsgNode::computeBoundingBox, applied to the box(false) of the constructor
computeBoundingBox(op, leftBox, rightBox) ==
    IF op = Intersection
    THEN expandToInclude(EmptyBox(FALSE),
                         IF extentSquaredNorm(leftBox) < extentSquaredNorm(rightBox)
                         THEN leftBox ELSE rightBox)
    ELSE IF op = Difference
    THEN expandToInclude(EmptyBox(FALSE), leftBox)
    ELSE [expandToInclude(expandToInclude(EmptyBox(FALSE), leftBox), rightBox)
             EXCEPT !.isTight = leftBox.isTight /\ rightBox.isTight]

\* CsgNode::boundingBox
boundingBox == box

----------------------------------------------------------------------------
(* CsgNode::computeInteractions *)

\* the lambda addInteraction
addInteraction(op, before, after) ==
    IF op = Intersection \/ op = Difference
    THEN (before = 1 /\ after = 2) \/ (before = 2 /\ after = 1)
    ELSE (before = 0 /\ after = 1) \/ (before = 1 /\ after = 0)

\* leftIsCloser comparing by <=: the left crossing first on equal distances
leftIsCloser_OrEqual(isLeft, isRight, nLeft, nRight) ==
    nRight = Len(isRight) \/
    (nLeft # Len(isLeft) /\ isLeft[nLeft + 1].d <= isRight[nRight + 1].d)

\* leftIsCloser without the comparison: the left list is drained first
leftIsCloser_LeftFirst(isLeft, isRight, nLeft, nRight) ==
    nRight = Len(isRight) \/ nLeft # Len(isLeft)

\* the test that picks the left list's next crossing (nLeft, nRight count from 0)
leftIsCloser(isLeft, isRight, nLeft, nRight) ==
    nRight = Len(isRight) \/
    (nLeft # Len(isLeft) /\ isLeft[nLeft + 1].d < isRight[nRight + 1].d)

\* is[is.size() - 1].n *= -1
flipNormal(x) == [x EXCEPT !.n = -1 * x.n]

\* what the right list's emitted crossing becomes
emitRight(op, x) == IF op = Difference THEN flipNormal(x) ELSE x

\* the while loop; acc = [is, consumed]
RECURSIVE traverse(_, _, _, _, _, _, _, _, _)
traverse(op, isLeft, isRight, nLeft, nRight, isLeftIntervalStart, isRightIntervalStart, counter, acc) ==
    LET hitsLeft == Len(isLeft)
        hitsRight == Len(isRight)
    IN  IF ~(nLeft # hitsLeft \/ nRight # hitsRight) THEN acc
        ELSE IF op = Intersection /\ (nLeft = hitsLeft \/ nRight = hitsRight) THEN acc
        ELSE IF op = Difference /\ nLeft = hitsLeft THEN acc
        ELSE IF leftIsCloser(isLeft, isRight, nLeft, nRight)
        THEN LET after == counter + (IF isLeftIntervalStart THEN 1 ELSE -1)
             IN  traverse(op, isLeft, isRight, nLeft + 1, nRight,
                          ~isLeftIntervalStart, isRightIntervalStart, after,
                          [is |-> IF addInteraction(op, counter, after)
                                  THEN Append(acc.is, isLeft[nLeft + 1])
                                  ELSE acc.is,
                           consumed |-> Append(acc.consumed, <<"L", nLeft + 1>>)])
        ELSE LET after == counter + (IF isRightIntervalStart THEN 1 ELSE -1)
             IN  traverse(op, isLeft, isRight, nLeft, nRight + 1,
                          isLeftIntervalStart, ~isRightIntervalStart, after,
                          [is |-> IF addInteraction(op, counter, after)
                                  THEN Append(acc.is, emitRight(op, isRight[nRight + 1]))
                                  ELSE acc.is,
                           consumed |-> Append(acc.consumed, <<"R", nRight + 1>>)])

\* rightIntervalStart without the inversion for Difference
rightIntervalStart_NotInverted(op, hitsRight) == hitsRight % 2 = 0

\* the initial parity of the right list
rightIntervalStart(op, hitsRight) == hitsRight % 2 = (IF op = Difference THEN 1 ELSE 0)

computeInteractions(op, isLeft, isRight) ==
    LET isLeftIntervalStart == Len(isLeft) % 2 = 0
        isRightIntervalStart == rightIntervalStart(op, Len(isRight))
        counter == (IF ~isLeftIntervalStart THEN 1 ELSE 0) +
                   (IF ~isRightIntervalStart THEN 1 ELSE 0)
    IN  traverse(op, isLeft, isRight, 0, 0, isLeftIntervalStart,
                 isRightIntervalStart, counter, [is |-> <<>>, consumed |-> <<>>])

----------------------------------------------------------------------------
(* std::merge(isLeft, isRight, compareInteractions) *)

\* the two lists concatenated instead of merged
merge_Concatenated(a, b) == a \o b

RECURSIVE merge(_, _)
merge(a, b) ==
    IF a = <<>> THEN b
    ELSE IF b = <<>> THEN a
    ELSE IF compareInteractions(b[1], a[1])
         THEN <<b[1]>> \o merge(a, Tail(b))
         ELSE <<a[1]>> \o merge(Tail(a), b)

----------------------------------------------------------------------------
(* CsgNode::intersect up to the shrinking of the ray: the list it leaves   *)
(* in `is`, the order of consumption, and whether line 190 is reached.     *)

intersectLists(op, hit, isLeft, isRight) ==
    LET hitsLeft == Len(isLeft)
        hitsRight == Len(isRight)
        early == [is |-> <<>>, consumed |-> <<>>, atShrink |-> FALSE]
    IN  IF ~hit THEN early
        ELSE IF hitsLeft = 0 /\ (op = Intersection \/ op = Difference) THEN early
        ELSE IF hitsLeft = 0 /\ hitsRight = 0 THEN early
        ELSE IF hitsLeft > 0 /\ hitsRight > 0
        THEN IF op = None
             THEN [is |-> merge(isLeft, isRight), consumed |-> <<>>, atShrink |-> TRUE]
             ELSE LET m == computeInteractions(op, isLeft, isRight)
                  IN  [is |-> m.is, consumed |-> m.consumed, atShrink |-> TRUE]
        ELSE IF hitsLeft > 0
        THEN IF op = Intersection THEN early
             ELSE [is |-> isLeft, consumed |-> <<>>, atShrink |-> TRUE]
        ELSE [is |-> isRight, consumed |-> <<>>, atShrink |-> TRUE]

\* the values a read of is[0].d past the end of an empty vector may yield
StaleDistances == 0..MaxD

\* the ray shrunk whatever countHits says
shrinksRay_Always(count) == TRUE

\* if (!countHits) r.tMax = is[0].d
shrinksRay(count) == ~count

Intersect ==
    /\ ~oob    \* nothing is modelled past an out-of-bounds read
    /\ LET res == intersectLists(operation, boxHit, left.isect, right.isect)
       IN  /\ is' = res.is
           /\ hits' = Len(res.is)
           /\ consumed' = res.consumed
           /\ rIn' = r
           /\ IF res.atShrink /\ shrinksRay(countHits)
              THEN IF res.is # <<>>
                   THEN r' = [r EXCEPT !.tMax = res.is[1].d] /\ oob' = FALSE /\ pc' = "intersect"
                   ELSE /\ oob' = TRUE
                        /\ \/ pc' = "crashed" /\ r' = r
                           \/ pc' = "intersect" /\ \E g \in StaleDistances : r' = [r EXCEPT !.tMax = g]
              ELSE r' = r /\ oob' = FALSE /\ pc' = "intersect"
    /\ UNCHANGED <<operation, left, right, box, countHits, boxHit, s, boxOverlaps,
                   i, found, sIn, iIn, sLeft, sRight>>

----------------------------------------------------------------------------
(* CsgNode::findClosestPoint *)

\* a child's findClosestPoint on the sphere it is handed: its answer, and the
\* sphere tightened as a side effect when it reports a point
childFindClosestPoint(child, sph) ==
    [found |-> child.found,
     i |-> child.cp,
     s |-> IF child.found
           THEN [sph EXCEPT !.r2 = Min(sph.r2, child.cp.d * child.cp.d)]
           ELSE sph]

\* info Exact as soon as one child is exact
bothExact_Either(iLeft, iRight) ==
    IF iLeft.distanceInfo = Exact \/ iRight.distanceInfo = Exact THEN Exact ELSE Bounded

\* DistanceInfo info: Exact only when both children are exact
bothExact(iLeft, iRight) ==
    IF iLeft.distanceInfo = Exact /\ iRight.distanceInfo = Exact THEN Exact ELSE Bounded

\* only the normal of the right result flipped
flipRight_NormalOnly(iRight) == [iRight EXCEPT !.n = -1 * iRight.n]

\* iRight.n *= -1; iRight.sign *= -1
flipRight(iRight) == [iRight EXCEPT !.n = -1 * iRight.n, !.sign = -1 * iRight.sign]

\* the branch foundLeft && foundRight
combineClosest(op, iLeft, iRight) ==
    LET sdLeft == signedDistance(iLeft)
        sdRight == signedDistance(iRight)
        info == bothExact(iLeft, iRight)
    IN  IF op = Union
        THEN [(IF sdLeft < sdRight THEN iLeft ELSE iRight) EXCEPT !.distanceInfo =
                 IF info = Exact /\ sdLeft > 0 /\ sdRight > 0 THEN Exact ELSE Bounded]
        ELSE IF op = Intersection
        THEN [(IF sdLeft > sdRight THEN iLeft ELSE iRight) EXCEPT !.distanceInfo =
                 IF info = Exact /\ sdLeft < 0 /\ sdRight < 0 THEN Exact ELSE Bounded]
        ELSE IF op = Difference
        THEN [(IF sdLeft > -sdRight THEN iLeft ELSE flipRight(iRight)) EXCEPT !.distanceInfo =
                 IF info = Exact /\ sdLeft < 0 /\ sdRight > 0 THEN Exact ELSE Bounded]
        ELSE IF iLeft.d < iRight.d THEN iLeft ELSE iRight

\* the body of findClosestPoint up to the shrinking of the sphere:
\* whether a point is reported and the interaction left in i
closestPoint(op, overlaps, foundLeft, iLeft, foundRight, iRight, iOld) ==
    LET no == [found |-> FALSE, i |-> iOld]
    IN  IF ~overlaps THEN no
        ELSE IF ~foundLeft /\ (op = Intersection \/ op = Difference) THEN no
        ELSE IF ~foundLeft /\ ~foundRight THEN no
        ELSE IF foundLeft /\ foundRight
        THEN [found |-> TRUE, i |-> combineClosest(op, iLeft, iRight)]
        ELSE IF foundLeft
        THEN IF op = Intersection THEN no ELSE [found |-> TRUE, i |-> iLeft]
        ELSE [found |-> TRUE, i |-> iRight]

\* the radius assigned without the min
shrinkSphere_Assigned(sph, x) == [sph EXCEPT !.r2 = x.d * x.d]

\* s.r2 = std::min(s.r2, i.d*i.d)
shrinkSphere(sph, x) == [sph EXCEPT !.r2 = Min(sph.r2, x.d * x.d)]

FindClosestPoint ==
    /\ ~oob
    /\ LET cl == childFindClosestPoint(left, s)
           cr == childFindClosestPoint(right, s)
           rightQueried == boxOverlaps /\
                           ~(~cl.found /\ (operation = Intersection \/ operation = Difference))
           res == closestPoint(operation, boxOverlaps, cl.found, cl.i, cr.found, cr.i, i)
       IN  /\ sLeft' = IF boxOverlaps THEN cl.s ELSE s
           /\ sRight' = IF rightQueried THEN cr.s ELSE s
           /\ found' = res.found
           /\ i' = res.i
           /\ s' = IF res.found THEN shrinkSphere(s, res.i) ELSE s
    /\ sIn' = s
    /\ iIn' = i
    /\ pc' = "findClosestPoint"
    /\ UNCHANGED <<operation, left, right, box, r, countHits, boxHit, is, hits,
                   boxOverlaps, rIn, consumed, oob>>

----------------------------------------------------------------------------
(* Children and initial states *)

\* a child aggregate: its box, its crossings of the ray, its closest point
Child(b, isect, f, cp) == [box |-> b, isect |-> isect, found |-> f, cp |-> cp]

UnitBox == [pMin |-> <<0, 0>>, pMax |-> <<1, 1>>, isTight |-> TRUE]

\* a child's crossings at distances ds: the last one leaves the child
\* (outward normal along the ray), and they alternate before it
Crossings(ds) ==
    [k \in 1..Len(ds) |->
        Interaction(ds[k], IF (Len(ds) - k) % 2 = 0 THEN 1 ELSE -1, 0, Exact)]

DistanceSeqs ==
    UNION {{f \in [1..k -> 1..MaxD] : \A j \in 1..(k - 1) : f[j] <= f[j + 1]} : k \in 0..MaxHits}

ChildLists == {Crossings(ds) : ds \in DistanceSeqs}

ClosestAnswers ==
    {[found |-> FALSE, cp |-> NoInteraction]} \cup
    {[found |-> TRUE, cp |-> Interaction(d, n, sg, info)] :
        d \in 0..MaxDist, n \in {-1, 1}, sg \in {-1, 1}, info \in {Exact, Bounded}}

Boxes ==
    {[pMin |-> <<a, b>>, pMax |-> <<c, d>>, isTight |-> t] :
        a \in 0..MaxCoord, b \in 0..MaxCoord, c \in 0..MaxCoord, d \in 0..MaxCoord,
        t \in BOOLEAN}

ChildBoxes == {b \in Boxes : b.pMin[1] <= b.pMax[1] /\ b.pMin[2] <= b.pMax[2]}

RayTMax == {MaxD \div 2, MaxD}
SphereR2 == {d * d : d \in 0..(MaxDist + 1)}

\* the state right after CsgNode(left_, right_, operation_), with a fresh
\* ray, sphere and output buffers of the caller
Constructed(op, l, rt, tMax, count, hit, r2, ov) ==
    /\ operation = op
    /\ left = l
    /\ right = rt
    /\ box = computeBoundingBox(op, l.box, rt.box)
    /\ r = [tMax |-> tMax]
    /\ countHits = count
    /\ boxHit = hit
    /\ is = <<>>
    /\ hits = 0
    /\ s = [r2 |-> r2]
    /\ boxOverlaps = ov
    /\ i = NoInteraction
    /\ found = FALSE
    /\ pc = "idle"
    /\ rIn = [tMax |-> tMax]
    /\ sIn = [r2 |-> r2]
    /\ iIn = NoInteraction
    /\ sLeft = [r2 |-> r2]
    /\ sRight = [r2 |-> r2]
    /\ consumed = <<>>
    /\ oob = FALSE

\* ray queries: every operation, every pair of sorted child lists; a ray that
\* misses the box is drawn once for each pair
Init ==
    \E ll \in ChildLists :
      \E rl \in {x \in ChildLists : Len(ll) + Len(x) <= MaxHits} :
        \E op \in BooleanOperation, hit \in BOOLEAN :
          \E t \in (IF hit THEN RayTMax ELSE {MaxD}), count \in (IF hit THEN BOOLEAN ELSE {FALSE}) :
            Constructed(op, Child(UnitBox, ll, FALSE, NoInteraction),
                        Child(UnitBox, rl, FALSE, NoInteraction),
                        t, count, hit, (MaxDist + 1) * (MaxDist + 1), TRUE)

Next == Intersect

Spec == Init /\ [][Next]_vars

\* closest-point queries: every operation, every pair of child answers
InitClosest ==
    \E op \in BooleanOperation, la \in ClosestAnswers, ra \in ClosestAnswers,
       r2 \in SphereR2, ov \in BOOLEAN :
        Constructed(op, Child(UnitBox, <<>>, la.found, la.cp),
                    Child(UnitBox, <<>>, ra.found, ra.cp),
                    MaxD, TRUE, TRUE, r2, ov)

NextClosest == FindClosestPoint

SpecClosest == InitClosest /\ [][NextClosest]_vars

\* construction over every pair of child boxes, then any sequence of queries
InitBox ==
    \E op \in BooleanOperation, lb \in ChildBoxes, rb \in ChildBoxes :
        Constructed(op,
                    Child(lb, Crossings(<<2, 4>>), TRUE, Interaction(0, 1, -1, Exact)),
                    Child(rb, Crossings(<<3>>), TRUE, Interaction(1, 1, 1, Exact)),
                    MaxD, TRUE, TRUE, (MaxDist + 1) * (MaxDist + 1), TRUE)

NextBox == Intersect \/ FindClosestPoint

SpecBox == InitBox /\ [][NextBox]_vars

----------------------------------------------------------------------------
(* Vocabulary of the properties *)

AfterIntersect == pc \in {"intersect", "crashed"}
AfterClosest == pc = "findClosestPoint"

Ds(list) == [k \in 1..Len(list) |-> list[k].d]
IsSorted(list) == \A k \in 1..(Len(list) - 1) : list[k].d <= list[k + 1].d
StrictlyAscending(list) == \A k \in 1..(Len(list) - 1) : list[k].d < list[k + 1].d
DistinctAcross(a, b) == \A j \in 1..Len(a), k \in 1..Len(b) : a[j].d # b[k].d
Count(list, x) == Cardinality({k \in 1..Len(list) : list[k] = x})
Range(list) == {list[k] : k \in 1..Len(list)}

\* the ray is inside the child just before / just after distance d, the child
\* being left for good at its last crossing
InsideBefore(list, d) == Cardinality({k \in 1..Len(list) : list[k].d >= d}) % 2 = 1
InsideAfter(list, d) == Cardinality({k \in 1..Len(list) : list[k].d > d}) % 2 = 1

\* membership in the boolean combination
Member(op, inL, inR) ==
    IF op = Union THEN inL \/ inR
    ELSE IF op = Intersection THEN inL /\ inR
    ELSE inL /\ ~inR

MembershipChanges(op, a, b, d) ==
    Member(op, InsideBefore(a, d), InsideBefore(b, d)) #
    Member(op, InsideAfter(a, d), InsideAfter(b, d))

\* the crossings of the combination from distance d on (lists with pairwise
\* distinct distances): the right list's crossings reversed under Difference
RECURSIVE BoundaryFrom(_, _, _, _)
BoundaryFrom(op, a, b, d) ==
    IF d > MaxD THEN <<>>
    ELSE LET inA == {k \in 1..Len(a) : a[k].d = d}
             inB == {k \in 1..Len(b) : b[k].d = d}
             here == IF ~MembershipChanges(op, a, b, d) THEN <<>>
                     ELSE IF inA # {} THEN <<a[CHOOSE k \in inA : TRUE]>>
                     ELSE IF inB # {}
                     THEN LET x == b[CHOOSE k \in inB : TRUE]
                          IN  <<IF op = Difference THEN [x EXCEPT !.n = -x.n] ELSE x>>
                     ELSE <<>>
         IN  here \o BoundaryFrom(op, a, b, d + 1)

----------------------------------------------------------------------------
(* C1: for Union, Intersection and Difference, child lists strictly        *)
(* ascending with pairwise distinct distances and a ray that hits the box, *)
(* intersect leaves in `is` exactly the crossings at which membership in   *)
(* the combination changes, in ascending d; left {1,4}, right {2,5} give   *)
(* Union {1,5}, Intersection {2,4}, Difference {1,2}; under Difference an  *)
(* emitted right crossing has its normal negated, every other emitted      *)
(* crossing is a copy of its input.                                        *)

C1_Case ==
    /\ AfterIntersect
    /\ boxHit
    /\ operation \in {Union, Intersection, Difference}
    /\ StrictlyAscending(left.isect)
    /\ StrictlyAscending(right.isect)
    /\ DistinctAcross(left.isect, right.isect)

C1_ParityMerge ==
    C1_Case =>
        /\ is = BoundaryFrom(operation, left.isect, right.isect, 1)
        /\ (Ds(left.isect) = <<1, 4>> /\ Ds(right.isect) = <<2, 5>>) =>
              Ds(is) = (IF operation = Union THEN <<1, 5>>
                        ELSE IF operation = Intersection THEN <<2, 4>>
                        ELSE <<1, 2>>)

C1_Witness ==
    /\ C1_Case
    /\ operation = Difference
    /\ Ds(left.isect) = <<1, 4>>
    /\ Ds(right.isect) = <<2, 5>>
    /\ is = <<left.isect[1], [right.isect[1] EXCEPT !.n = -right.isect[1].n]>>

(* C2: whatever the operation and whichever child lists are empty or hold  *)
(* equal distances, the list intersect leaves in `is` is sorted ascending  *)
(* (non-decreasing) by d when both child lists are.                        *)

C2_SortedOutput ==
    (AfterIntersect /\ IsSorted(left.isect) /\ IsSorted(right.isect)) => IsSorted(is)

C2_Witness ==
    /\ AfterIntersect
    /\ operation = Intersection
    /\ ~DistinctAcross(left.isect, right.isect)
    /\ Len(is) >= 2
    /\ is[1].d = is[2].d

(* C3: a miss is a clean result: whenever the combined list is empty,      *)
(* intersect returns 0 with `is` empty and r.tMax unchanged and reads no   *)
(* element of the empty list.                                              *)

C3_CleanMiss ==
    (AfterIntersect /\ is = <<>>) =>
        /\ pc = "intersect"
        /\ hits = 0
        /\ r.tMax = rIn.tMax
        /\ ~oob

(* C7: with countHits false and hits > 0, r.tMax on return is the d of the *)
(* first returned interaction and, when each child returned only hits with *)
(* d <= the tMax it was passed, not larger than r.tMax on entry; with      *)
(* countHits true r.tMax is unchanged.                                     *)

ChildrenWithin(tMax) ==
    /\ \A k \in 1..Len(left.isect) : left.isect[k].d <= tMax
    /\ \A k \in 1..Len(right.isect) : right.isect[k].d <= tMax

C7_RayTMax ==
    pc = "intersect" =>
        /\ countHits => r.tMax = rIn.tMax
        /\ (~countHits /\ hits > 0) =>
              /\ r.tMax = is[1].d
              /\ ChildrenWithin(rIn.tMax) => r.tMax <= rIn.tMax

C7_Witness ==
    /\ pc = "intersect"
    /\ ~countHits
    /\ hits > 0
    /\ ChildrenWithin(rIn.tMax)
    /\ r.tMax = is[1].d
    /\ r.tMax < rIn.tMax

(* C8: with operation None and a ray that hits the box, the returned list  *)
(* is the sorted merge of both child lists: sorted, of length hitsLeft +   *)
(* hitsRight (which is the returned count), every child interaction once   *)
(* and unmodified; with one child empty it is the other child's list.      *)

C8_NoneMerge ==
    (AfterIntersect /\ boxHit /\ operation = None) =>
        /\ IsSorted(is)
        /\ Len(is) = Len(left.isect) + Len(right.isect)
        /\ hits = Len(is)
        /\ \A x \in Range(is) \cup Range(left.isect) \cup Range(right.isect) :
              Count(is, x) = Count(left.isect, x) + Count(right.isect, x)
        /\ right.isect = <<>> => is = left.isect
        /\ left.isect = <<>> => is = right.isect

C8_Witness ==
    /\ AfterIntersect
    /\ boxHit
    /\ operation = None
    /\ Len(left.isect) = 2
    /\ Len(right.isect) = 2
    /\ Ds(is) = <<1, 2, 4, 5>>
    /\ Ds(left.isect) = <<1, 4>>

(* C10 as stated: the parity merge consumes the crossings as a stable      *)
(* merge, a left crossing before a right crossing of equal d; touching     *)
(* shapes, left {1,3} and right {3,5}, give no zero-width interval under   *)
(* Intersection and no duplicated interior crossing under Union.           *)

Position(x) == CHOOSE k \in 1..Len(consumed) : consumed[k] = x
IsConsumed(x) == \E k \in 1..Len(consumed) : consumed[k] = x

C10_LeftFirstOnTies ==
    AfterIntersect =>
        /\ \A b \in 1..Len(right.isect), a \in 1..Len(left.isect) :
              (IsConsumed(<<"R", b>>) /\ left.isect[a].d <= right.isect[b].d) =>
                  (IsConsumed(<<"L", a>>) /\ Position(<<"L", a>>) < Position(<<"R", b>>))
        /\ (boxHit /\ Ds(left.isect) = <<1, 3>> /\ Ds(right.isect) = <<3, 5>>) =>
              /\ operation = Intersection => is = <<>>
              /\ operation = Union => Ds(is) = <<1, 5>>

(* C10 amended: the parity merge consumes the crossings in distance order, *)
(* a RIGHT crossing before a left crossing of equal d (the reverse of the  *)
(* None merge, which places the left one first); left {1,3} and right      *)
(* {3,5} give {1,5} under Union and the zero-width pair {3,3} (right's     *)
(* crossing, then left's) under Intersection.                              *)

C10_RightFirstOnTies ==
    AfterIntersect =>
        /\ \A a \in 1..Len(left.isect), b \in 1..Len(right.isect) :
              /\ (IsConsumed(<<"L", a>>) /\ right.isect[b].d <= left.isect[a].d) =>
                    (IsConsumed(<<"R", b>>) /\ Position(<<"R", b>>) < Position(<<"L", a>>))
              /\ (IsConsumed(<<"R", b>>) /\ left.isect[a].d < right.isect[b].d) =>
                    (IsConsumed(<<"L", a>>) /\ Position(<<"L", a>>) < Position(<<"R", b>>))
        /\ (boxHit /\ Ds(left.isect) = <<1, 3>> /\ Ds(right.isect) = <<3, 5>>) =>
              /\ operation = Union => Ds(is) = <<1, 5>>
              /\ operation = Intersection => is = <<right.isect[1], left.isect[2]>>
              /\ operation = None =>
                    is = <<left.isect[1], left.isect[2], right.isect[1], right.isect[2]>>

C10_Witness ==
    /\ AfterIntersect
    /\ boxHit
    /\ operation = Intersection
    /\ Ds(left.isect) = <<1, 3>>
    /\ Ds(right.isect) = <<3, 5>>
    /\ consumed = <<<<"L", 1>>, <<"R", 1>>, <<"L", 2>>>>
    /\ Ds(is) = <<3, 3>>

----------------------------------------------------------------------------
(* Closest-point properties, under SpecClosest *)

\* x is y up to its distanceInfo
SamePoint(x, y) == x.d = y.d /\ x.n = y.n /\ x.sign = y.sign

\* x is y with its normal and its sign negated, up to its distanceInfo
FlippedPoint(x, y) == x.d = y.d /\ x.n = -y.n /\ x.sign = -y.sign

(* C4: with both children reporting a point, Union returns the child      *)
(* result of smaller signed distance, Intersection the one of larger       *)
(* signed distance, Difference the left result if sdLeft > -sdRight and    *)
(* otherwise the right result with normal and sign negated (signed         *)
(* distance max(sdLeft, -sdRight)), None the child result of smaller d.    *)
(* With one child reporting, the result is that child's interaction        *)
(* unchanged for Union and None (and for Difference when it is the left    *)
(* child), and not-found for Intersection and for Difference without a     *)
(* left point.                                                             *)

C4_Selection ==
    (AfterClosest /\ boxOverlaps) =>
        LET sdLeft == left.cp.sign * left.cp.d
            sdRight == right.cp.sign * right.cp.d
        IN  /\ (left.found /\ right.found) =>
                  /\ found
                  /\ operation = Union =>
                        /\ SamePoint(i, left.cp) \/ SamePoint(i, right.cp)
                        /\ i.sign * i.d = Min(sdLeft, sdRight)
                  /\ operation = Intersection =>
                        /\ SamePoint(i, left.cp) \/ SamePoint(i, right.cp)
                        /\ i.sign * i.d = Max(sdLeft, sdRight)
                  /\ operation = Difference =>
                        /\ IF sdLeft > -sdRight
                           THEN SamePoint(i, left.cp)
                           ELSE FlippedPoint(i, right.cp)
                        /\ i.sign * i.d = Max(sdLeft, -sdRight)
                  /\ operation = None =>
                        /\ i = left.cp \/ i = right.cp
                        /\ i.d = Min(left.cp.d, right.cp.d)
            /\ (left.found /\ ~right.found) =>
                  IF operation = Intersection THEN ~found ELSE found /\ i = left.cp
            /\ (~left.found /\ right.found) =>
                  IF operation \in {Intersection, Difference}
                  THEN ~found ELSE found /\ i = right.cp

C4_Witness ==
    /\ AfterClosest
    /\ boxOverlaps
    /\ operation = Difference
    /\ left.found
    /\ right.found
    /\ left.cp.sign * left.cp.d < -(right.cp.sign * right.cp.d)
    /\ right.cp.d > left.cp.d
    /\ found
    /\ FlippedPoint(i, right.cp)

(* C5: with both children reporting a point, the result is Exact under     *)
(* Intersection only when both are Exact and sdLeft < 0 and sdRight < 0,   *)
(* under Difference only when both are Exact and sdLeft < 0 and            *)
(* sdRight > 0, under Union only when both are Exact and sdLeft > 0 and    *)
(* sdRight > 0, and Bounded otherwise; under None it carries the           *)
(* distanceInfo of the nearer child.                                       *)

C5_Exactness ==
    (AfterClosest /\ boxOverlaps /\ left.found /\ right.found) =>
        LET sdLeft == left.cp.sign * left.cp.d
            sdRight == right.cp.sign * right.cp.d
            both == left.cp.distanceInfo = Exact /\ right.cp.distanceInfo = Exact
            exact == i.distanceInfo = Exact
        IN  /\ i.distanceInfo \in {Exact, Bounded}
            /\ operation = Intersection => (exact <=> (both /\ sdLeft < 0 /\ sdRight < 0))
            /\ operation = Difference => (exact <=> (both /\ sdLeft < 0 /\ sdRight > 0))
            /\ operation = Union => (exact <=> (both /\ sdLeft > 0 /\ sdRight > 0))
            /\ operation = None =>
                  /\ left.cp.d < right.cp.d => i.distanceInfo = left.cp.distanceInfo
                  /\ right.cp.d < left.cp.d => i.distanceInfo = right.cp.distanceInfo
                  /\ i.distanceInfo \in {left.cp.distanceInfo, right.cp.distanceInfo}

C5_Witness ==
    /\ AfterClosest
    /\ boxOverlaps
    /\ left.found
    /\ right.found
    /\ operation = Difference
    /\ left.cp.distanceInfo = Exact
    /\ right.cp.distanceInfo = Exact
    /\ left.cp.sign * left.cp.d < 0
    /\ right.cp.sign * right.cp.d < 0
    /\ i.distanceInfo = Bounded

(* C6: a closest-point query never increases the sphere's r2; when it      *)
(* returns true, r2 on return is min(r2 on entry, d*d) of the returned     *)
(* interaction; when it returns false the caller's sphere and output       *)
(* interaction are unchanged, the children having tightened only their     *)
(* copies of the sphere.                                                   *)

C6_MonotoneSphere ==
    AfterClosest =>
        /\ s.r2 <= sIn.r2
        /\ found => s.r2 = Min(sIn.r2, i.d * i.d)
        /\ ~found => (s = sIn /\ i = iIn)

C6_Witness ==
    /\ AfterClosest
    /\ ~found
    /\ boxOverlaps
    /\ operation = Intersection
    /\ sLeft.r2 < sIn.r2
    /\ s = sIn
    /\ i = iIn

----------------------------------------------------------------------------
(* Bounding box, under SpecBox *)

SameCorners(b, c) == b.pMin = c.pMin /\ b.pMax = c.pMax

(* C9: the cached box is fixed by the operation at construction and stays  *)
(* the same through every query: for Intersection the child box of         *)
(* smaller extent (the right one when the extents are equal), for          *)
(* Difference the left child's box, neither ever marked tight; for Union   *)
(* and None the union of both child boxes, tight iff both are tight.       *)

C9_CachedBox ==
    /\ boundingBox = box
    /\ operation = Intersection =>
          /\ ~box.isTight
          /\ IF extentSquaredNorm(left.box) < extentSquaredNorm(right.box)
             THEN SameCorners(box, left.box)
             ELSE SameCorners(box, right.box)
    /\ operation = Difference => (~box.isTight /\ SameCorners(box, left.box))
    /\ operation \in {Union, None} =>
          /\ box.isTight <=> (left.box.isTight /\ right.box.isTight)
          /\ \A k \in Dims :
                /\ box.pMin[k] = Min(left.box.pMin[k], right.box.pMin[k])
                /\ box.pMax[k] = Max(left.box.pMax[k], right.box.pMax[k])

C9_Witness ==
    /\ pc = "findClosestPoint"
    /\ hits > 0
    /\ found
    /\ operation = Intersection
    /\ extentSquaredNorm(left.box) = extentSquaredNorm(right.box)
    /\ ~SameCorners(left.box, right.box)
    /\ left.box.isTight
    /\ right.box.isTight
    /\ SameCorners(box, right.box)
    /\ ~box.isTight

====
